---- MODULE Spec2Model ----
(***************************************************************************)
(* La Fabrica de Cuentos API (src/backend/main.py).                        *)
(*                                                                         *)
(* Two request handlers, generate_story and generate_book, the image       *)
(* helper generate_image_data they fan out to through asyncio.gather, and  *)
(* the layout function create_pdf_book.  Texts (prompts, paragraphs,       *)
(* titles, error details) are sequences of tokens, so that the f-strings   *)
(* of the source are concatenations.  Sequences are 1-based; At(s, i)      *)
(* reads the source's 0-based index i.                                     *)
(***************************************************************************)
EXTENDS Integers, Sequences, FiniteSets, TLC

MaxParagraphs == 2
MaxStoryParagraphs == 6
StoryParagraphs == 5

ParagraphTexts == {<<"a">>, <<"b">>}
Titles == {<<"T">>}
Themes == {<<>>, <<"barrilete">>}
ApiKeys == {"", "sk"}
B64Payloads == {"b64_A", "b64_B", "b64_badpadding"}

SeqsUpTo(S, n) == UNION {[1..m -> S] : m \in 0..n}

At(s, i) == s[i + 1]

VARIABLES pc, api_key, request, text_calls, image_calls, task, outer,
          order, late, image_data_list, pdf_calls, pdf, response

vars == <<pc, api_key, request, text_calls, image_calls, task, outer,
          order, late, image_data_list, pdf_calls, pdf, response>>

-----------------------------------------------------------------------------
(* Values *)

NoRequest == [op |-> "none", theme |-> <<>>, title |-> <<>>, paragraphs |-> <<>>]
StoryRequest(theme) == [op |-> "story", theme |-> theme, title |-> <<>>, paragraphs |-> <<>>]
BookRequest(title, paragraphs) ==
    [op |-> "book", theme |-> <<>>, title |-> title, paragraphs |-> paragraphs]

NoContent == [shape |-> "none", title |-> <<>>, paragraphs |-> <<>>]
NoPdf == [raised |-> "none", pages |-> <<>>, document |-> <<>>, saved |-> FALSE]
NoResponse ==
    [status_code |-> 0, kind |-> "none", detail |-> <<>>, story |-> NoContent, document |-> <<>>]

HTTPException(status_code, detail) ==
    [status_code |-> status_code, kind |-> "error", detail |-> detail,
     story |-> NoContent, document |-> <<>>]

StreamingResponse(pdf_buffer) ==
    [status_code |-> 200, kind |-> "pdf", detail |-> <<>>,
     story |-> NoContent, document |-> pdf_buffer]

StoryResponse(content) ==
    [status_code |-> 200, kind |-> "story", detail |-> <<>>,
     story |-> content, document |-> <<>>]

NoException == [status_code |-> 0, detail |-> <<>>]
Pending == [kind |-> "pending", exc |-> NoException, value |-> <<>>]

ART_STYLE_PROMPT == <<"Art Style", "Character Descriptions", "Consistency Rule">>
cover_prompt == <<"cover scene with Pepito and Pepon">>
system_prompt == <<"storyteller rules">>

user_prompt(theme) == <<"The theme of the story is: ">> \o theme

-----------------------------------------------------------------------------
(* generate_image_data *)

full_prompt_no_style(prompt) == prompt

full_prompt(prompt) == ART_STYLE_PROMPT \o <<"**Scene:** ">> \o prompt

ImageRequest(prompt) ==
    [model |-> "dall-e-3", prompt |-> full_prompt(prompt), size |-> "1024x768", n |-> 1]

ImageReplies ==
    {[error |-> TRUE, b64_json |-> ""]}
        \cup {[error |-> FALSE, b64_json |-> b] : b \in B64Payloads}

b64decode(b64_data) ==
    CASE b64_data = "b64_A" -> [raised |-> FALSE, bytes |-> "img_A"]
      [] b64_data = "b64_B" -> [raised |-> FALSE, bytes |-> "img_B"]
      [] OTHER -> [raised |-> TRUE, bytes |-> ""]

image_error(prompt) ==
    [status_code |-> 500,
     detail |-> <<"Failed to generate image for prompt: ">> \o prompt]

generate_image_data(prompt, reply) ==
    IF reply.error \/ b64decode(reply.b64_json).raised
    THEN [state |-> "failed", result |-> "", exc |-> image_error(prompt)]
    ELSE [state |-> "done", result |-> b64decode(reply.b64_json).bytes,
          exc |-> NoException]

-----------------------------------------------------------------------------
(* create_pdf_book *)

CoverPage(image, title) == [type |-> "Cover", image |-> image, text |-> title]
TextPage(paragraph_text) == [type |-> "Text", image |-> "", text |-> paragraph_text]
IllustrationPage(image) == [type |-> "Illustration", image |-> image, text |-> <<>>]

scene_image_same_index(image_data, i) == At(image_data, i)

scene_image(image_data, i) == At(image_data, i + 1)

RECURSIVE body_pages(_, _, _)
body_pages(paragraphs, image_data, i) ==
    IF i >= Len(paragraphs)
    THEN [raised |-> "none", pages |-> <<>>]
    ELSE IF i + 1 >= Len(image_data)
         THEN [raised |-> "IndexError", pages |-> <<TextPage(At(paragraphs, i))>>]
         ELSE LET rest == body_pages(paragraphs, image_data, i + 1)
              IN [raised |-> rest.raised,
                  pages |-> <<TextPage(At(paragraphs, i)),
                              IllustrationPage(scene_image(image_data, i))>>
                            \o rest.pages]

create_pdf_book(title, paragraphs, image_data) ==
    IF Len(image_data) = 0
    THEN [raised |-> "IndexError", pages |-> <<>>, document |-> <<>>, saved |-> FALSE]
    ELSE LET body == body_pages(paragraphs, image_data, 0)
             pages == <<CoverPage(At(image_data, 0), title)>> \o body.pages
         IN IF body.raised # "none"
            THEN [raised |-> body.raised, pages |-> pages, document |-> <<>>,
                  saved |-> FALSE]
            ELSE [raised |-> "none", pages |-> pages, document |-> pages,
                  saved |-> TRUE]

-----------------------------------------------------------------------------
(* generate_story *)

StoryContents ==
    {[shape |-> "story", title |-> t, paragraphs |-> [i \in 1..n |-> <<"s">>]] :
        t \in {<<>>, <<"T">>}, n \in 0..MaxStoryParagraphs}
        \cup {[shape |-> "other", title |-> <<>>, paragraphs |-> <<>>]}

StoryReplies ==
    {[error |-> TRUE, content |-> NoContent]}
        \cup {[error |-> FALSE, content |-> c] : c \in StoryContents}

generate_story(theme) ==
    /\ pc = "idle"
    /\ request' = StoryRequest(theme)
    /\ IF api_key = ""
       THEN /\ response' = HTTPException(500, <<"OPENAI_API_KEY is not configured on the server.">>)
            /\ pc' = "responded"
            /\ text_calls' = text_calls
       ELSE /\ text_calls' = Append(text_calls,
                                    [model |-> "gpt-4o", system |-> system_prompt,
                                     user |-> user_prompt(theme)])
            /\ pc' = "story_awaiting"
            /\ response' = response
    /\ UNCHANGED <<api_key, image_calls, task, outer, order, late,
                   image_data_list, pdf_calls, pdf>>

generate_story_resume(reply) ==
    /\ pc = "story_awaiting"
    /\ response' = IF reply.error
                   THEN HTTPException(500, <<"Failed to generate story. Error: ">>)
                   ELSE StoryResponse(reply.content)
    /\ pc' = "responded"
    /\ UNCHANGED <<api_key, request, text_calls, image_calls, task, outer, order,
                   late, image_data_list, pdf_calls, pdf>>

-----------------------------------------------------------------------------
(* generate_book *)

scene_prompts(paragraphs) == <<cover_prompt>> \o paragraphs

gather_schedule_first_only(n) == IF n > 0 THEN {1} ELSE {}

gather_schedule(n) == 1..n

gather_results_in_completion_order(tasks, completed) ==
    [j \in 1..Len(tasks) |-> tasks[completed[j]].result]

gather_results(tasks, completed) == [j \in 1..Len(tasks) |-> tasks[j].result]

gather_keep_waiting(fut, tasks, completed, k) ==
    IF fut.kind # "pending"
    THEN fut
    ELSE IF \A j \in 1..Len(tasks) : tasks[j].state \in {"done", "failed"}
         THEN [kind |-> "result", exc |-> NoException,
               value |-> gather_results(tasks, completed)]
         ELSE fut

gather_done_callback(fut, tasks, completed, k) ==
    IF fut.kind # "pending"
    THEN fut
    ELSE IF tasks[k].state = "failed"
         THEN [kind |-> "exception", exc |-> tasks[k].exc, value |-> <<>>]
         ELSE IF \A j \in 1..Len(tasks) : tasks[j].state = "done"
              THEN [kind |-> "result", exc |-> NoException,
                    value |-> gather_results(tasks, completed)]
              ELSE fut

gather_cancel_siblings(tasks, k) ==
    IF tasks[k].state = "failed"
    THEN [j \in 1..Len(tasks) |->
            IF tasks[j].state = "inflight"
            THEN [state |-> "cancelled", result |-> "", exc |-> NoException]
            ELSE tasks[j]]
    ELSE tasks

gather_siblings(tasks, k) == tasks

generate_book(title, paragraphs) ==
    /\ pc = "idle"
    /\ request' = BookRequest(title, paragraphs)
    /\ IF api_key = ""
       THEN /\ response' = HTTPException(500, <<"OPENAI_API_KEY is not configured on the server.">>)
            /\ pc' = "responded"
            /\ UNCHANGED <<image_calls, task>>
       ELSE LET prompts == scene_prompts(paragraphs)
                started == gather_schedule(Len(prompts))
            IN /\ image_calls' = [k \in 1..Len(prompts) |-> ImageRequest(prompts[k])]
               /\ task' = [k \in 1..Len(prompts) |->
                             [state |-> IF k \in started THEN "inflight" ELSE "created",
                              result |-> "", exc |-> NoException]]
               /\ pc' = "book_awaiting"
               /\ response' = response
    /\ UNCHANGED <<api_key, text_calls, outer, order, late, image_data_list,
                   pdf_calls, pdf>>

image_call_complete(k, reply) ==
    /\ request.op = "book"
    /\ k \in DOMAIN task
    /\ task[k].state = "inflight"
    /\ LET prompts == scene_prompts(request.paragraphs)
           finished == [task EXCEPT ![k] = generate_image_data(prompts[k], reply)]
       IN /\ task' = gather_siblings(finished, k)
          /\ order' = Append(order, k)
          /\ outer' = gather_done_callback(outer, finished, order', k)
    /\ late' = IF pc = "responded" THEN late \cup {k} ELSE late
    /\ UNCHANGED <<pc, api_key, request, text_calls, image_calls, image_data_list,
                   pdf_calls, pdf, response>>

generate_book_resume ==
    /\ pc = "book_awaiting"
    /\ outer.kind # "pending"
    /\ pc' = "responded"
    /\ IF outer.kind = "exception"
       THEN /\ response' = HTTPException(outer.exc.status_code, outer.exc.detail)
            /\ UNCHANGED <<image_data_list, pdf_calls, pdf>>
       ELSE LET pdf_buffer == create_pdf_book(request.title, request.paragraphs,
                                              outer.value)
            IN /\ image_data_list' = outer.value
               /\ pdf_calls' = pdf_calls + 1
               /\ pdf' = pdf_buffer
               /\ response' = IF pdf_buffer.raised # "none"
                              THEN HTTPException(500, <<"Failed to generate the book. Error: ">>)
                              ELSE StreamingResponse(pdf_buffer.document)
    /\ UNCHANGED <<api_key, request, text_calls, image_calls, task, outer, order,
                   late>>

-----------------------------------------------------------------------------
(* The service: one request per behaviour, nothing shared between requests *)

Init ==
    /\ pc = "idle"
    /\ api_key \in ApiKeys
    /\ request = NoRequest
    /\ text_calls = <<>>
    /\ image_calls = <<>>
    /\ task = <<>>
    /\ outer = Pending
    /\ order = <<>>
    /\ late = {}
    /\ image_data_list = <<>>
    /\ pdf_calls = 0
    /\ pdf = NoPdf
    /\ response = NoResponse

Next ==
    \/ \E theme \in Themes : generate_story(theme)
    \/ \E reply \in StoryReplies : generate_story_resume(reply)
    \/ \E title \in Titles, paragraphs \in SeqsUpTo(ParagraphTexts, MaxParagraphs) :
          generate_book(title, paragraphs)
    \/ \E k \in 1..(MaxParagraphs + 1), reply \in ImageReplies :
          image_call_complete(k, reply)
    \/ generate_book_resume

Spec == Init /\ [][Next]_vars

-----------------------------------------------------------------------------
(* create_pdf_book on its own, over every title, paragraph sequence and    *)
(* image sequence within the bounds                                        *)

ImageBytes == {"img_A", "img_B"}

InitLayout ==
    /\ pc = "layout_call"
    /\ api_key = "sk"
    /\ request \in {BookRequest(t, ps) :
                      t \in Titles, ps \in SeqsUpTo(ParagraphTexts, MaxParagraphs)}
    /\ text_calls = <<>>
    /\ image_calls = <<>>
    /\ task = <<>>
    /\ outer = Pending
    /\ order = <<>>
    /\ late = {}
    /\ image_data_list \in SeqsUpTo(ImageBytes, MaxParagraphs + 2)
    /\ pdf_calls = 0
    /\ pdf = NoPdf
    /\ response = NoResponse

call_create_pdf_book ==
    /\ pc = "layout_call"
    /\ pdf' = create_pdf_book(request.title, request.paragraphs, image_data_list)
    /\ pdf_calls' = pdf_calls + 1
    /\ pc' = "layout_done"
    /\ UNCHANGED <<api_key, request, text_calls, image_calls, task, outer, order,
                   late, image_data_list, response>>

NextLayout == call_create_pdf_book

SpecLayout == InitLayout /\ [][NextLayout]_vars

-----------------------------------------------------------------------------
(* Properties *)

BookRan == request.op = "book" /\ api_key # ""
BookErrored == BookRan /\ pc = "responded" /\ response.kind = "error"
Failed == {k \in DOMAIN task : task[k].state = "failed"}
AllDone == \A k \in DOMAIN task : task[k].state = "done"
ExpectedScene(k) == IF k = 1 THEN cover_prompt ELSE request.paragraphs[k - 1]

\* C1: the image sequence handed to create_pdf_book has N+1 entries and entry k
\* is the result of the call issued for scene prompt k, whatever the order in
\* which the calls completed.
C1_OutputOrderIsSceneOrder ==
    (BookRan /\ pdf_calls > 0) =>
        /\ Len(image_data_list) = Len(request.paragraphs) + 1
        /\ \A k \in 1..Len(image_data_list) :
              /\ image_calls[k].prompt = full_prompt(ExpectedScene(k))
              /\ image_data_list[k] = task[k].result

C1_Witness ==
    /\ BookRan
    /\ pdf_calls = 1
    /\ Len(order) >= 3
    /\ order[1] > order[2]
    /\ task[order[1]].result # task[order[2]].result

\* C2: whenever one of the N+1 image calls has failed, create_pdf_book is never
\* invoked and the request, once answered, is answered with an error carrying
\* no document.
C2_FailureProducesNoDocument ==
    (BookRan /\ Failed # {}) =>
        /\ pdf_calls = 0
        /\ pdf = NoPdf
        /\ pc = "responded" =>
              /\ response.kind = "error"
              /\ response.status_code = 500
              /\ response.document = <<>>

C2_Witness ==
    /\ BookErrored
    /\ Len(task) >= 3
    /\ Failed = {Len(task)}
    /\ \A k \in 1..(Len(task) - 1) : task[k].state = "done"

ExpectedBook(title, paragraphs, images) ==
    [p \in 1..(1 + 2 * Len(paragraphs)) |->
        IF p = 1 THEN CoverPage(images[1], title)
        ELSE IF p % 2 = 0 THEN TextPage(paragraphs[p \div 2])
        ELSE IllustrationPage(images[((p - 1) \div 2) + 1])]

\* C3: for N paragraphs and N+1 images create_pdf_book returns a document of
\* exactly 1 + 2N pages: the cover with images[0], then for each i the text page
\* of paragraphs[i] immediately followed by the illustration page of images[i+1].
C3_PageSequence ==
    (pc = "layout_done" /\ Len(image_data_list) = Len(request.paragraphs) + 1) =>
        /\ pdf.raised = "none"
        /\ pdf.saved
        /\ Len(pdf.document) = 1 + 2 * Len(request.paragraphs)
        /\ pdf.document = ExpectedBook(request.title, request.paragraphs, image_data_list)

C3_Witness ==
    /\ pc = "layout_done"
    /\ Len(request.paragraphs) >= 2
    /\ Len(image_data_list) = Len(request.paragraphs) + 1
    /\ image_data_list[1] # image_data_list[2]
    /\ Len(pdf.document) >= 5

\* C4: called with an image sequence whose length differs from
\* paragraphs.length + 1, create_pdf_book raises InvariantViolation, emits no
\* page and returns no document.
C4_LengthMismatchRejected ==
    (pc = "layout_done" /\ Len(image_data_list) # Len(request.paragraphs) + 1) =>
        /\ pdf.raised = "InvariantViolation"
        /\ pdf.pages = <<>>
        /\ pdf.document = <<>>
        /\ ~pdf.saved

\* C5: generate_story never answers with success unless the collaborator's
\* content is a story with a non-empty title and exactly 5 paragraphs.
C5_StoryShapeValidated ==
    (request.op = "story" /\ pc = "responded" /\ response.kind = "story") =>
        /\ response.story.shape = "story"
        /\ response.story.title # <<>>
        /\ Len(response.story.paragraphs) = StoryParagraphs

Identifies(detail, k) ==
    \A j \in DOMAIN task :
        detail = image_error(scene_prompts(request.paragraphs)[j]).detail => j = k

\* C6: the error returned by the book request identifies the index of every
\* image call that failed, also when two scene prompts have the same text and
\* when several calls fail.
C6_ErrorIdentifiesFailedIndex ==
    BookErrored => \A k \in Failed : Identifies(response.detail, k)

\* C7: every one of the N+1 image calls of a request sends the same
\* style/character preamble followed by its own scene text: the cover prompt for
\* call 0, paragraph k-1 verbatim for call k.
C7_SamePreambleOwnScene ==
    (BookRan /\ pc # "idle") =>
        /\ Len(image_calls) = Len(request.paragraphs) + 1
        /\ \A k \in 1..Len(image_calls) :
              LET p == image_calls[k].prompt
                  n == Len(ART_STYLE_PROMPT)
              IN /\ Len(p) > n
                 /\ SubSeq(p, 1, n) = ART_STYLE_PROMPT
                 /\ SubSeq(p, n + 2, Len(p)) = ExpectedScene(k)
                 /\ \A j \in 1..Len(image_calls) :
                       SubSeq(image_calls[j].prompt, 1, n + 1) = SubSeq(p, 1, n + 1)

C7_Witness ==
    /\ BookRan
    /\ pc = "book_awaiting"
    /\ Len(image_calls) >= 3
    /\ request.paragraphs[1] # request.paragraphs[2]

\* C8: generate_story called with an empty theme fails with InvalidInput before
\* any call to the text-generation collaborator is made.
C8_EmptyThemeRejected ==
    (request.op = "story" /\ request.theme = <<>>) =>
        /\ text_calls = <<>>
        /\ pc \in {"responded"}
        /\ response.kind = "error"
        /\ response.detail = <<"InvalidInput">>

\* C9: all N+1 image calls are started before the request waits on any of them
\* (none is still unstarted while the request is suspended or when a call
\* completes), and the request is only answered once all N+1 calls have
\* completed or a failure has been observed.
C9_AllIssuedThenSuspended ==
    BookRan =>
        /\ pc # "idle" =>
              /\ DOMAIN task = 1..(Len(request.paragraphs) + 1)
              /\ \A k \in DOMAIN task : task[k].state # "created"
        /\ pc = "responded" => (AllDone \/ Failed # {})
        /\ (pc = "book_awaiting" /\ outer.kind = "pending") =>
              (Failed = {} /\ ~AllDone)

C9_Witness ==
    /\ BookRan
    /\ pc = "book_awaiting"
    /\ Len(task) >= 3
    /\ \A k \in DOMAIN task : task[k].state = "inflight"

\* C10 as stated: once the request has returned its error, no sibling image call
\* runs to completion any more.
C10_SiblingsAbandoned == BookErrored => late = {}

\* C10: once the first image call has failed the request returns that error and
\* no sibling call is cancelled: the calls still in flight stay in flight and
\* may complete afterwards, and what they return changes neither the error
\* response nor the absence of a document.
C10_SiblingsKeepRunning ==
    (BookRan /\ Failed # {}) =>
        /\ \A k \in DOMAIN task : task[k].state \in {"inflight", "done", "failed"}
        /\ \A k \in late : task[k].state \in {"done", "failed"}
        /\ pc = "responded" =>
              /\ response = HTTPException(outer.exc.status_code, outer.exc.detail)
              /\ pdf_calls = 0

C10_Witness ==
    /\ BookErrored
    /\ \E k \in late : task[k].state = "done"
    /\ \E k \in DOMAIN task : task[k].state = "inflight"

====
